---------------------------- MODULE Spec2Model ----------------------------
(***************************************************************************)
(* A model of remda's vector kernel (src/prelude/vec3.rs) and of its       *)
(* camera and light-transport integrator (src/camera.rs).                  *)
(*                                                                         *)
(* f64 values are modelled as exact rationals <<n, d>> in lowest terms     *)
(* with d > 0, so every arithmetic operator below computes what the f64    *)
(* operator computes when no rounding occurs.  Inputs are drawn from       *)
(* lattices on which sqrt and tan are exact.                               *)
(***************************************************************************)
EXTENDS Integers, Sequences, FiniteSets, TLC

VARIABLES
    \* vector algebra: two operands, the operation applied, its results
    va, vb, op, outS, outV,
    \* sampling: the sampler running, its position, the orientation argument,
    \* the last candidate drawn, the number of rejected candidates, the
    \* sampled vector before orientation, the value returned
    fn, spc, dir, cand, rejects, su, sret,
    \* camera: the builder, the built camera, the arguments and random draws
    \* of the last Camera::ray call, and the ray it returned
    builder, camera, args, lens, nsample, ray,
    \* integrator: position, the top-level call, the stack of ray_color
    \* frames, the value being returned, the answers the world and the
    \* materials gave, call counters, the final colour
    rpc, call, stack, retval, chain, hits, scatters, nest, result

algVars == <<va, vb, op, outS, outV>>
smpVars == <<fn, spc, dir, cand, rejects, su, sret>>
camVars == <<builder, camera, args, lens, nsample, ray>>
rcVars  == <<rpc, call, stack, retval, chain, hits, scatters, nest, result>>
vars    == <<algVars, smpVars, camVars, rcVars>>

\* a step of one component leaves the others alone
AlgOnly == UNCHANGED <<smpVars, camVars, rcVars>>
SmpOnly == UNCHANGED <<algVars, camVars, rcVars>>
CamOnly == UNCHANGED <<algVars, smpVars, rcVars>>
RcOnly  == UNCHANGED <<algVars, smpVars, camVars>>

---------------------------------------------------------------------------
(* Bounds of the model *)

\* operand components of the algebra checks range over -VecRange..VecRange
VecRange == 1
\* random candidates have components k/Grid, k \in -Grid..Grid-1: [-1, 1)
Grid == 2
\* a rejection loop is followed through at most MaxRejects rejections
MaxRejects == 2
\* ray_color is called with depth in 0..MaxDepth
MaxDepth == 3

---------------------------------------------------------------------------
(* f64 arithmetic, exact *)

\* An operator's argument is evaluated at each of its uses; the arithmetic
\* operators below bind their operands once, as the members of singleton
\* sets, and compute on the values.

Abs(n) == IF n < 0 THEN -n ELSE n

RECURSIVE GCD(_, _)
GCD(a, b) ==
    IF b = 0 THEN a ELSE CHOOSE g \in { GCD(b, r) : r \in {a % b} } : TRUE

LowestTerms(n, d) ==
    LET sgn == IF d < 0 THEN -1 ELSE 1
    IN  CHOOSE q \in { <<(sgn * n) \div g, (sgn * d) \div g>> :
                       g \in {GCD(Abs(n), Abs(d))} } : TRUE

\* the rational n0/d0
Rat(n0, d0) == CHOOSE q \in { LowestTerms(n, d) : n \in {n0}, d \in {d0} } : TRUE

I(n) == <<n, 1>>
Zero == I(0)
One  == I(1)
Two  == I(2)
Half == Rat(1, 2)

RAdd(a0, b0) ==
    CHOOSE q \in { LowestTerms(a[1] * b[2] + b[1] * a[2], a[2] * b[2]) :
                   a \in {a0}, b \in {b0} } : TRUE

RSub(a0, b0) ==
    CHOOSE q \in { LowestTerms(a[1] * b[2] - b[1] * a[2], a[2] * b[2]) :
                   a \in {a0}, b \in {b0} } : TRUE

RMul(a0, b0) ==
    CHOOSE q \in { LowestTerms(a[1] * b[1], a[2] * b[2]) :
                   a \in {a0}, b \in {b0} } : TRUE

RDiv(a0, b0) ==
    CHOOSE q \in { LowestTerms(a[1] * b[2], a[2] * b[1]) :
                   a \in {a0}, b \in {b0} } : TRUE

RNeg(a0) == CHOOSE q \in { <<-a[1], a[2]>> : a \in {a0} } : TRUE

RLt(a0, b0) == \E a \in {a0}, b \in {b0} : a[1] * b[2] < b[1] * a[2]

RLe(a0, b0) == \E a \in {a0}, b \in {b0} : a[1] * b[2] <= b[1] * a[2]

\* f64::mul_add(self, a, b) = self * a + b
mul_add(self, a, b) == RAdd(RMul(self, a), b)

\* the root of a perfect square; no value otherwise
ISqrt(n0) == CHOOSE k \in 0..n0 : k * k = n0

\* f64::sqrt on the rationals whose square root is rational
RSqrt(a0) == CHOOSE q \in { <<ISqrt(a[1]), ISqrt(a[2])>> : a \in {a0} } : TRUE

---------------------------------------------------------------------------
(* Vec3 *)

new(x, y, z) == [x |-> x, y |-> y, z |-> z]

V(i, j, k) == new(I(i), I(j), I(k))

Vec3_default == new(Zero, Zero, Zero)

length_squared(v) == mul_add(v.z, v.z, mul_add(v.x, v.x, RMul(v.y, v.y)))

length(v) == RSqrt(length_squared(v))

dot(a, b) == mul_add(a.z, b.z, mul_add(a.x, b.x, RMul(a.y, b.y)))

cross_plus(a, b) ==
    new(RAdd(RMul(a.y, b.z), RMul(a.z, b.y)),
        RSub(RMul(a.z, b.x), RMul(a.x, b.z)),
        RSub(RMul(a.x, b.y), RMul(a.y, b.x)))

cross(a, b) ==
    new(RSub(RMul(a.y, b.z), RMul(a.z, b.y)),
        RSub(RMul(a.z, b.x), RMul(a.x, b.z)),
        RSub(RMul(a.x, b.y), RMul(a.y, b.x)))

neg(v) == new(RNeg(v.x), RNeg(v.y), RNeg(v.z))

add(a, b) == new(RAdd(a.x, b.x), RAdd(a.y, b.y), RAdd(a.z, b.z))

sub(a, b) == new(RSub(a.x, b.x), RSub(a.y, b.y), RSub(a.z, b.z))

\* Mul<f64> for &Vec3, and f64 * Vec3 which delegates to it
mul_f64(v, s) == new(RMul(v.x, s), RMul(v.y, s), RMul(v.z, s))

\* Div<f64> for &Vec3: self * (1.0 / rhs)
div_f64(self, rhs) == mul_f64(self, RDiv(One, rhs))

unit(vec) == div_f64(vec, length(vec))

---------------------------------------------------------------------------
(* Vector algebra: dot and cross applied to drawn operands *)

AlgVecs ==
    { V(i, j, k) : i \in -VecRange..VecRange, j \in -VecRange..VecRange,
                   k \in -VecRange..VecRange }

AlgIdle ==
    /\ va = Vec3_default /\ vb = Vec3_default
    /\ op = "none" /\ outS = <<>> /\ outV = <<>>

InitAlg ==
    /\ va \in AlgVecs /\ vb \in AlgVecs
    /\ op = "none" /\ outS = <<>> /\ outV = <<>>

ApplyDot ==
    /\ op = "none"
    /\ op' = "dot"
    /\ outS' = <<dot(va, vb), dot(vb, va)>>
    /\ UNCHANGED <<va, vb, outV>>
    /\ AlgOnly

ApplyCross ==
    /\ op = "none"
    /\ op' = "cross"
    /\ outV' = <<cross(va, vb), neg(cross(vb, va))>>
    /\ UNCHANGED <<va, vb, outS>>
    /\ AlgOnly

NextAlg == ApplyDot \/ ApplyCross

---------------------------------------------------------------------------
(* Sampling: the random source and the Vec3 samplers *)

\* Random::range(-1.0..1.0): the values of [-1, 1) on the lattice
UnitRange == { Rat(k, Grid) : k \in -Grid..(Grid - 1) }

\* Random::range(-1.0..1.0) as drawn by random_unit: the values z of [-1, 1)
\* for which sqrt(1 - z*z) is rational
UnitZ == { I(-1), Rat(-4, 5), Rat(-3, 5), Zero, Rat(3, 5), Rat(4, 5) }

\* Random::range(0.0..2.0 * PI): the quarter turns q * PI/2 of [0, 2*PI)
Angles == 0..3

cos(q) == CASE q = 0 -> One [] q = 1 -> Zero [] q = 2 -> I(-1) [] q = 3 -> Zero

sin(q) == CASE q = 0 -> Zero [] q = 1 -> One [] q = 2 -> Zero [] q = 3 -> I(-1)

\* the values random_in_unit_box can return
UnitBox == { new(x, y, z) : x \in UnitRange, y \in UnitRange, z \in UnitRange }

\* the candidates of random_unit_disk: z fixed at 0.0
DiskBox == { new(x, y, Zero) : x \in UnitRange, y \in UnitRange }

\* the `dir` arguments the oriented samplers are called with
Dirs == { V(0, 0, 1), V(0, 1, 0), V(1, 1, 0), V(-1, 0, 2) }

accepts_closed(p) == RLe(length_squared(p), One)

\* the loop's exit test: p.length_squared() < 1.0
accepts(p) == RLt(length_squared(p), One)

hemisphere_flip_ge(u, d) == IF RLe(Zero, dot(u, d)) THEN u ELSE neg(u)

\* random_in_unit_hemisphere after sampling: if u.dot(dir) > 0.0 { u } else { -u }
hemisphere_flip(u, d) == IF RLt(Zero, dot(u, d)) THEN u ELSE neg(u)

\* random_unit_dir after sampling: if u.dot(dir) > 0.0 { u } else { -u }
unit_dir_flip(u, d) == IF RLt(Zero, dot(u, d)) THEN u ELSE neg(u)

random_unit(a, z) ==
    LET r == RSqrt(RSub(One, RMul(z, z)))
    IN  new(RMul(r, cos(a)), RMul(r, sin(a)), z)

SmpIdle ==
    /\ fn = "none" /\ spc = "idle" /\ dir = Vec3_default
    /\ cand = Vec3_default /\ rejects = 0
    /\ su = Vec3_default /\ sret = Vec3_default

Call_random_in_unit_sphere ==
    /\ spc = "idle"
    /\ fn' = "random_in_unit_sphere" /\ spc' = "loop"
    /\ UNCHANGED <<dir, cand, rejects, su, sret>>
    /\ SmpOnly

Call_random_unit_disk ==
    /\ spc = "idle"
    /\ fn' = "random_unit_disk" /\ spc' = "loop"
    /\ UNCHANGED <<dir, cand, rejects, su, sret>>
    /\ SmpOnly

Call_random_in_unit_hemisphere ==
    /\ spc = "idle"
    /\ \E d \in Dirs : dir' = d
    /\ fn' = "random_in_unit_hemisphere" /\ spc' = "loop"
    /\ UNCHANGED <<cand, rejects, su, sret>>
    /\ SmpOnly

\* one iteration of random_in_unit_sphere's loop, run for itself or for
\* random_in_unit_hemisphere, which orients the point the loop returns
SphereIterate ==
    /\ spc = "loop"
    /\ fn \in {"random_in_unit_sphere", "random_in_unit_hemisphere"}
    /\ \E p \in UnitBox :
        /\ cand' = p
        /\ IF accepts(p)
           THEN /\ su' = p
                /\ sret' = IF fn = "random_in_unit_hemisphere"
                           THEN hemisphere_flip(p, dir) ELSE p
                /\ spc' = "done"
                /\ UNCHANGED rejects
           ELSE /\ rejects < MaxRejects
                /\ rejects' = rejects + 1
                /\ UNCHANGED <<su, sret, spc>>
    /\ UNCHANGED <<fn, dir>>
    /\ SmpOnly

\* one iteration of random_unit_disk's loop
DiskIterate ==
    /\ spc = "loop"
    /\ fn = "random_unit_disk"
    /\ \E p \in DiskBox :
        /\ cand' = p
        /\ IF accepts(p)
           THEN /\ su' = p /\ sret' = p /\ spc' = "done"
                /\ UNCHANGED rejects
           ELSE /\ rejects < MaxRejects
                /\ rejects' = rejects + 1
                /\ UNCHANGED <<su, sret, spc>>
    /\ UNCHANGED <<fn, dir>>
    /\ SmpOnly

Call_random_unit ==
    /\ spc = "idle"
    /\ \E a \in Angles, z \in UnitZ :
        /\ su' = random_unit(a, z)
        /\ sret' = random_unit(a, z)
    /\ fn' = "random_unit" /\ spc' = "done"
    /\ UNCHANGED <<dir, cand, rejects>>
    /\ SmpOnly

Call_random_unit_dir ==
    /\ spc = "idle"
    /\ \E d \in Dirs, a \in Angles, z \in UnitZ :
        /\ dir' = d
        /\ su' = random_unit(a, z)
        /\ sret' = unit_dir_flip(random_unit(a, z), d)
    /\ fn' = "random_unit_dir" /\ spc' = "done"
    /\ UNCHANGED <<cand, rejects>>
    /\ SmpOnly

NextSmp ==
    \/ Call_random_in_unit_sphere
    \/ Call_random_unit_disk
    \/ Call_random_in_unit_hemisphere
    \/ SphereIterate
    \/ DiskIterate
    \/ Call_random_unit
    \/ Call_random_unit_dir

---------------------------------------------------------------------------
(* Camera *)

\* d2r: degrees to radians, the result in units of PI
d2r(deg) == RDiv(deg, I(180))

\* f64::tan at the angles used (in units of PI): exact at PI/4, and the
\* nearby rationals 15/26 and 26/15 at PI/6 and PI/3
tan(x) ==
    CASE x = Rat(1, 4) -> One
      [] x = Rat(1, 6) -> Rat(15, 26)
      [] x = Rat(1, 3) -> Rat(26, 15)

NoCamera == [built |-> FALSE]
NoRay    == [cast |-> FALSE]

\* the values the builder's setters are called with; every combination is a
\* camera whose view direction is not zero and not parallel to vup, and
\* whose basis has rational length
LookFroms  == { V(0, 0, 0), V(0, 0, 3) }
LookAts    == { V(0, 0, -1), V(4, 0, 0) }
Vups       == { V(0, 1, 0), V(0, 2, 0) }
Fovs       == { I(90), I(60) }
Aspects    == { Rat(16, 9), Two }
Apertures  == { Zero, Two }
Focuses    == { One, Two }
Shutters   == { Zero, One }

\* image-plane coordinates passed to Camera::ray
UVs == { <<Zero, Zero>>, <<Half, Half>>, <<One, Rat(1, 3)>> }

\* the values Random::normal returns
Normals == { I(-1), Zero, Rat(3, 2) }

\* the points random_unit_disk returns: the candidates its loop accepts
random_unit_disk_returns == { p \in DiskBox : accepts(p) }

CameraBuilder_default ==
    [ look_from      |-> Vec3_default,
      look_at        |-> V(0, 0, -1),
      vup            |-> V(0, 1, 0),
      fov            |-> I(90),
      aspect_ratio   |-> Rat(16, 9),
      aperture       |-> Zero,
      focus_distance |-> One,
      shutter_speed  |-> Zero ]

Camera_new(look_from, look_at, vup, fov0, aspect_ratio, aperture, focus_distance, shutter_speed) ==
    LET fov1 == d2r(fov0)
        h   == tan(RDiv(fov1, Two))
        vh  == RMul(Two, h)
        vw  == RMul(vh, aspect_ratio)
        w   == unit(sub(look_at, look_from))
        horizontal_unit == unit(cross(w, vup))
        vertical_unit   == unit(cross(horizontal_unit, w))
        horizontal_full == mul_f64(horizontal_unit, RMul(focus_distance, vw))
        vertical_full   == mul_f64(vertical_unit, RMul(focus_distance, vh))
        lb == add(sub(sub(look_from, div_f64(horizontal_full, Two)),
                      div_f64(vertical_full, Two)),
                  mul_f64(w, focus_distance))
    IN  [ built           |-> TRUE,
          origin          |-> look_from,
          lb              |-> lb,
          horizontal_full |-> horizontal_full,
          vertical_full   |-> vertical_full,
          horizontal_unit |-> horizontal_unit,
          vertical_unit   |-> vertical_unit,
          aspect_ratio    |-> aspect_ratio,
          aperture        |-> aperture,
          shutter_speed   |-> shutter_speed ]

Ray_new(origin, direction, time) ==
    [cast |-> TRUE, origin |-> origin, direction |-> direction, time |-> time]

Camera_ray_no_aperture(self, u, v, disk, normal) ==
    LET rd        == disk
        offset    == add(mul_f64(self.horizontal_unit, rd.x),
                         mul_f64(self.vertical_unit, rd.y))
        origin    == add(self.origin, offset)
        direction == sub(add(add(self.lb, mul_f64(self.horizontal_full, u)),
                             mul_f64(self.vertical_full, v)), origin)
    IN  Ray_new(origin, direction, RMul(self.shutter_speed, normal))

Camera_ray_time_added(self, u, v, disk, normal) ==
    LET rd        == mul_f64(disk, RDiv(self.aperture, Two))
        offset    == add(mul_f64(self.horizontal_unit, rd.x),
                         mul_f64(self.vertical_unit, rd.y))
        origin    == add(self.origin, offset)
        direction == sub(add(add(self.lb, mul_f64(self.horizontal_full, u)),
                             mul_f64(self.vertical_full, v)), origin)
    IN  Ray_new(origin, direction, RAdd(self.shutter_speed, normal))

Camera_ray_from_eye(self, u, v, disk, normal) ==
    LET rd        == mul_f64(disk, RDiv(self.aperture, Two))
        offset    == add(mul_f64(self.horizontal_unit, rd.x),
                         mul_f64(self.vertical_unit, rd.y))
        origin    == add(self.origin, offset)
        direction == sub(add(add(self.lb, mul_f64(self.horizontal_full, u)),
                             mul_f64(self.vertical_full, v)), self.origin)
    IN  Ray_new(origin, direction, RMul(self.shutter_speed, normal))

\* Camera::ray, given the values its two random draws return
Camera_ray(self, u, v, disk, normal) ==
    LET rd        == mul_f64(disk, RDiv(self.aperture, Two))
        offset    == add(mul_f64(self.horizontal_unit, rd.x),
                         mul_f64(self.vertical_unit, rd.y))
        origin    == add(self.origin, offset)
        direction == sub(add(add(self.lb, mul_f64(self.horizontal_full, u)),
                             mul_f64(self.vertical_full, v)), origin)
    IN  Ray_new(origin, direction, RMul(self.shutter_speed, normal))

CamIdle ==
    /\ builder = CameraBuilder_default
    /\ camera = NoCamera
    /\ args = <<Zero, Zero>> /\ lens = Vec3_default /\ nsample = Zero
    /\ ray = NoRay

Building == camera = NoCamera

Rest == UNCHANGED <<camera, args, lens, nsample, ray>> /\ CamOnly

look_from ==
    /\ Building
    /\ \E x \in LookFroms : builder' = [builder EXCEPT !.look_from = x]
    /\ Rest

look_at ==
    /\ Building
    /\ \E x \in LookAts : builder' = [builder EXCEPT !.look_at = x]
    /\ Rest

vup ==
    /\ Building
    /\ \E x \in Vups : builder' = [builder EXCEPT !.vup = x]
    /\ Rest

\* debug_assert!(0.0 < fov && fov <= 180.0)
fov ==
    /\ Building
    /\ \E x \in Fovs :
        /\ RLt(Zero, x) /\ RLe(x, I(180))
        /\ builder' = [builder EXCEPT !.fov = x]
    /\ Rest

\* debug_assert!(aspect_ratio > 0.0)
aspect_ratio ==
    /\ Building
    /\ \E x \in Aspects :
        /\ RLt(Zero, x)
        /\ builder' = [builder EXCEPT !.aspect_ratio = x]
    /\ Rest

\* debug_assert!(aperture >= 0.0)
aperture ==
    /\ Building
    /\ \E x \in Apertures :
        /\ RLe(Zero, x)
        /\ builder' = [builder EXCEPT !.aperture = x]
    /\ Rest

\* debug_assert!(distance >= 0.0)
focus ==
    /\ Building
    /\ \E x \in Focuses :
        /\ RLe(Zero, x)
        /\ builder' = [builder EXCEPT !.focus_distance = x]
    /\ Rest

focus_to_look_at ==
    /\ Building
    /\ LET distance == length(sub(builder.look_at, builder.look_from))
       IN  /\ RLe(Zero, distance)
           /\ builder' = [builder EXCEPT !.focus_distance = distance]
    /\ Rest

shutter_speed ==
    /\ Building
    /\ \E x \in Shutters : builder' = [builder EXCEPT !.shutter_speed = x]
    /\ Rest

build ==
    /\ Building
    /\ camera' = Camera_new(builder.look_from, builder.look_at, builder.vup,
                            builder.fov, builder.aspect_ratio,
                            builder.aperture, builder.focus_distance,
                            builder.shutter_speed)
    /\ UNCHANGED <<builder, args, lens, nsample, ray>>
    /\ CamOnly

\* shot's closure calls self.camera.ray(u, v)
CallRay ==
    /\ camera.built
    /\ ~ray.cast
    /\ \E uv \in UVs, p \in random_unit_disk_returns, n \in Normals :
        /\ args' = uv /\ lens' = p /\ nsample' = n
        /\ ray' = Camera_ray(camera, uv[1], uv[2], p, n)
    /\ UNCHANGED <<builder, camera>>
    /\ CamOnly

\* the closure returns and its ray is dropped
DropRay ==
    /\ ray.cast
    /\ ray' = NoRay
    /\ args' = <<Zero, Zero>> /\ lens' = Vec3_default /\ nsample' = Zero
    /\ UNCHANGED <<builder, camera>>
    /\ CamOnly

NextCam ==
    \/ look_from \/ look_at \/ vup \/ fov \/ aspect_ratio \/ aperture
    \/ focus \/ focus_to_look_at \/ shutter_speed
    \/ build
    \/ CallRay
    \/ DropRay

---------------------------------------------------------------------------
(* Integrator: background and ray_color *)

Color_newf(r, g, b) == [r |-> r, g |-> g, b |-> b]

\* Color::default(): black
Color_default == Color_newf(Zero, Zero, Zero)

\* Color * Color: componentwise
Color_mul(a, b) == Color_newf(RMul(a.r, b.r), RMul(a.g, b.g), RMul(a.b, b.b))

\* Color::gradient: (1 - t) * self + t * rhs
gradient(self, rhs, t) ==
    LET t1 == RSub(One, t)
    IN  Color_newf(RAdd(RMul(t1, self.r), RMul(t, rhs.r)),
                   RAdd(RMul(t1, self.g), RMul(t, rhs.g)),
                   RAdd(RMul(t1, self.b), RMul(t, rhs.b)))

background(r) ==
    LET u == unit(r.direction)
        t == RMul(Half, RAdd(u.y, One))
    IN  gradient(Color_newf(One, One, One),
                 Color_newf(Half, Rat(7, 10), One), t)

\* the rays ray_color is called with and the materials scatter into
RcRays ==
    { Ray_new(V(0, 0, 0), V(0, 1, 0), Zero),
      Ray_new(V(0, 0, 0), V(3, -4, 0), Zero),
      Ray_new(V(1, 0, 0), V(2, 1, 2), One) }

\* the attenuations the materials return
Attenuations ==
    { Color_newf(Half, Half, Half), Color_newf(One, Zero, Rat(4, 5)) }

Frame(r, d) == [ray |-> r, depth |-> d, pc |-> "entry", color |-> Color_default]

Top == stack[Len(stack)]

Running == rpc = "running" /\ Len(stack) > 0

SetTop(f) == [stack EXCEPT ![Len(stack)] = f]

\* the top frame returns val to its caller, or to shot's closure
Return(val) ==
    /\ stack' = SubSeq(stack, 1, Len(stack) - 1)
    /\ IF Len(stack) = 1
       THEN /\ result' = val /\ rpc' = "done"
            /\ retval' = Color_default
       ELSE /\ retval' = val /\ rpc' = "returning"
            /\ UNCHANGED result

RcIdle ==
    /\ rpc = "idle"
    /\ call = [ray |-> NoRay, depth |-> 0]
    /\ stack = <<>>
    /\ retval = Color_default
    /\ chain = <<>>
    /\ hits = 0 /\ scatters = 0 /\ nest = 0
    /\ result = Color_default

\* shot's closure: Self::ray_color(&ray, self.world, self.depth)
CallRayColor ==
    /\ rpc = "idle"
    /\ \E r \in RcRays, d \in 0..MaxDepth :
        /\ call' = [ray |-> r, depth |-> d]
        /\ stack' = <<Frame(r, d)>>
    /\ rpc' = "running"
    /\ UNCHANGED <<retval, chain, hits, scatters, nest, result>>
    /\ RcOnly

DepthZero_background ==
    /\ Running /\ Top.pc = "entry"
    /\ Top.depth = 0
    /\ Return(background(Top.ray))
    /\ UNCHANGED <<call, chain, hits, scatters, nest>>
    /\ RcOnly

\* if depth == 0 { return Color::default(); }
DepthZero ==
    /\ Running /\ Top.pc = "entry"
    /\ Top.depth = 0
    /\ Return(Color_default)
    /\ UNCHANGED <<call, chain, hits, scatters, nest>>
    /\ RcOnly

HitNone_black ==
    /\ Running /\ Top.pc = "entry"
    /\ Top.depth # 0
    /\ hits' = hits + 1
    /\ chain' = Append(chain, [kind |-> "miss"])
    /\ Return(Color_default)
    /\ UNCHANGED <<call, scatters, nest>>
    /\ RcOnly

\* world.hit returns None: Self::background(ray)
HitNone ==
    /\ Running /\ Top.pc = "entry"
    /\ Top.depth # 0
    /\ hits' = hits + 1
    /\ chain' = Append(chain, [kind |-> "miss"])
    /\ Return(background(Top.ray))
    /\ UNCHANGED <<call, scatters, nest>>
    /\ RcOnly

\* world.hit returns Some(hit)
HitSome ==
    /\ Running /\ Top.pc = "entry"
    /\ Top.depth # 0
    /\ hits' = hits + 1
    /\ stack' = SetTop([Top EXCEPT !.pc = "hit"])
    /\ UNCHANGED <<rpc, call, retval, chain, scatters, nest, result>>
    /\ RcOnly

\* material.scatter returns None: Color::default()
ScatterNone ==
    /\ Running /\ Top.pc = "hit"
    /\ scatters' = scatters + 1
    /\ chain' = Append(chain, [kind |-> "absorb"])
    /\ Return(Color_default)
    /\ UNCHANGED <<call, hits, nest>>
    /\ RcOnly

ScatterSome_same_depth ==
    /\ Running /\ Top.pc = "hit"
    /\ Len(stack) <= MaxDepth + 1
    /\ scatters' = scatters + 1
    /\ \E c \in Attenuations, r \in RcRays :
        /\ chain' = Append(chain, [kind |-> "scatter", color |-> c, ray |-> r])
        /\ stack' = Append(SetTop([Top EXCEPT !.pc = "wait", !.color = c]),
                           Frame(r, Top.depth))
    /\ nest' = IF Len(stack) > nest THEN Len(stack) ELSE nest
    /\ UNCHANGED <<rpc, call, retval, hits, result>>
    /\ RcOnly

\* material.scatter returns Some(scattered): the recursive call
\* Self::ray_color(&scattered.ray, world, depth - 1)
ScatterSome ==
    /\ Running /\ Top.pc = "hit"
    /\ scatters' = scatters + 1
    /\ \E c \in Attenuations, r \in RcRays :
        /\ chain' = Append(chain, [kind |-> "scatter", color |-> c, ray |-> r])
        /\ stack' = Append(SetTop([Top EXCEPT !.pc = "wait", !.color = c]),
                           Frame(r, Top.depth - 1))
    /\ nest' = IF Len(stack) > nest THEN Len(stack) ELSE nest
    /\ UNCHANGED <<rpc, call, retval, hits, result>>
    /\ RcOnly

ReturnProduct_dropped ==
    /\ rpc = "returning" /\ Top.pc = "wait"
    /\ Return(retval)
    /\ UNCHANGED <<call, chain, hits, scatters, nest>>
    /\ RcOnly

\* the recursive call returned: return scattered.color * <its value>
ReturnProduct ==
    /\ rpc = "returning" /\ Top.pc = "wait"
    /\ Return(Color_mul(Top.color, retval))
    /\ UNCHANGED <<call, chain, hits, scatters, nest>>
    /\ RcOnly

NextRc ==
    \/ CallRayColor
    \/ DepthZero
    \/ HitNone
    \/ HitSome
    \/ ScatterNone
    \/ ScatterSome
    \/ ReturnProduct

---------------------------------------------------------------------------
(* Specifications *)

InitAlgebra == InitAlg /\ SmpIdle /\ CamIdle /\ RcIdle

InitIdle == AlgIdle /\ SmpIdle /\ CamIdle /\ RcIdle

\* dot and cross on drawn operands
SpecAlgebra == InitAlgebra /\ [][NextAlg]_vars

\* the Vec3 samplers
SpecSampling == InitIdle /\ [][NextSmp]_vars

\* the camera builder, Camera::new and Camera::ray
SpecCamera == InitIdle /\ [][NextCam]_vars

\* ray_color; a call that was made runs to its end
SpecIntegrator == InitIdle /\ [][NextRc]_vars /\ WF_vars(NextRc)

---------------------------------------------------------------------------
(* Properties *)

Black == Color_newf(Zero, Zero, Zero)
White == Color_newf(One, One, One)

Oriented == spc = "done" /\ fn \in {"random_in_unit_hemisphere", "random_unit_dir"}

\* C1: ray_color called with depth = 0 returns black, and makes no world.hit
\* query and no material scatter call.
C1_DepthZeroBlack ==
    /\ (rpc # "idle" /\ call.depth = 0) => (hits = 0 /\ scatters = 0 /\ chain = <<>>)
    /\ (rpc = "done" /\ call.depth = 0) => result = Black

C1_Witness == rpc = "done" /\ call.depth = 0 /\ call.ray.direction = V(3, -4, 0)

\* C2: when the hit query of a call with depth >= 1 reports no hit, the call
\* returns exactly background(ray) of its own ray, after one hit query, no
\* scatter call and no recursive call.
C2_NoHitBackground ==
    (rpc = "done" /\ call.depth >= 1 /\ chain = <<[kind |-> "miss"]>>)
        => /\ result = background(call.ray)
           /\ hits = 1 /\ scatters = 0 /\ nest = 0

C2_Witness ==
    /\ rpc = "done" /\ call.depth >= 1 /\ chain = <<[kind |-> "miss"]>>
    /\ call.ray.direction = V(0, 1, 0)
    /\ result = Color_newf(Half, Rat(7, 10), One)

\* C3 as stated: the oriented samplers return the sampled vector u un-flipped
\* whenever dot(u, dir) >= 0, zero included, and -u only when dot(u, dir) < 0.
C3_TieUnflipped ==
    Oriented =>
        /\ RLe(Zero, dot(su, dir)) => sret = su
        /\ RLt(dot(su, dir), Zero) => sret = neg(su)

\* C3 amended: the oriented samplers return the sampled vector u un-flipped
\* only when dot(u, dir) > 0, and return -u whenever dot(u, dir) <= 0, zero
\* included.
C3_TieFlipped ==
    Oriented =>
        /\ RLt(Zero, dot(su, dir)) => sret = su
        /\ RLe(dot(su, dir), Zero) => sret = neg(su)

C3_Witness ==
    /\ Oriented /\ fn = "random_in_unit_hemisphere"
    /\ dot(su, dir) = Zero /\ su # Vec3_default
    /\ sret = neg(su) /\ sret # su

\* C4: a camera built with aperture = 0 returns only rays whose origin is
\* the camera's origin, which is look_from, whatever (u, v) and whatever
\* point the lens-disk sampler returned.
C4_ApertureZeroOrigin ==
    (camera.built /\ ray.cast /\ camera.aperture = Zero)
        => /\ ray.origin = camera.origin
           /\ camera.origin = builder.look_from

C4_Witness ==
    /\ camera.built /\ ray.cast /\ camera.aperture = Zero
    /\ lens = new(Half, Rat(-1, 2), Zero) /\ args[1] # Zero
    /\ builder.look_from # Vec3_default

\* C5: a camera built with shutter_speed = 0 returns only rays whose time is
\* exactly 0, whatever value the standard-normal sampler returned.
C5_ShutterZeroTime ==
    (camera.built /\ ray.cast /\ camera.shutter_speed = Zero) => ray.time = Zero

C5_Witness ==
    /\ camera.built /\ ray.cast /\ camera.shutter_speed = Zero
    /\ nsample = Rat(3, 2)

\* C6: random_in_unit_sphere returns only points with length_squared < 1 and
\* random_unit_disk only points with z = 0 and length_squared < 1; the point
\* returned is the candidate drawn last, and every candidate rejected before
\* it had length_squared >= 1, so it is the first acceptable one.
C6_Rejection ==
    /\ (spc = "loop" /\ rejects > 0) => RLe(One, length_squared(cand))
    /\ (spc = "done" /\ fn \in {"random_in_unit_sphere", "random_in_unit_hemisphere"})
        => /\ su = cand /\ RLt(length_squared(su), One)
           /\ fn = "random_in_unit_sphere" => sret = cand
    /\ (spc = "done" /\ fn = "random_unit_disk")
        => sret = cand /\ sret.z = Zero /\ RLt(length_squared(sret), One)

C6_Witness ==
    /\ spc = "done" /\ fn = "random_in_unit_sphere" /\ rejects >= 1
    /\ sret = new(Half, Rat(-1, 2), Half)

\* C7: cross(a, b) is the negation of cross(b, a), component by component,
\* and dot(a, b) = dot(b, a).
C7_CrossAntiDotComm ==
    /\ op = "cross" => outV[1] = outV[2]
    /\ op = "dot" => outS[1] = outS[2]

C7_Witness == op = "cross" /\ outV[1] = V(1, -1, 1) /\ va # vb

\* the frames of ray_color on the stack carry depths descending by one from
\* the top-level call's, and the calls made stay within that depth
DepthBounds ==
    /\ hits <= call.depth /\ scatters <= call.depth /\ nest <= call.depth
    /\ Len(stack) <= call.depth + 1
    /\ Len(stack) > 0 => stack[1].depth = call.depth
    /\ \A i \in 1..(Len(stack) - 1) : stack[i + 1].depth = stack[i].depth - 1

\* C8: ray_color terminates whatever the world and the materials answer: each
\* recursive call has depth one less than its caller's, and a top-level call
\* makes at most `depth` hit queries, at most `depth` scatter calls and
\* nests at most `depth` recursive calls.
C8_Termination == []DepthBounds /\ <>(rpc = "done")

C8_Witness ==
    /\ rpc = "done" /\ call.depth >= 2
    /\ hits = call.depth /\ scatters = call.depth /\ nest = call.depth

\* the explicit loop: follow the chain of scattered rays, accumulating the
\* product of the attenuations
RECURSIVE loop_color(_, _, _, _)
loop_color(acc, r, d, i) ==
    IF d = 0 THEN Black
    ELSE IF chain[i].kind = "miss" THEN Color_mul(acc, background(r))
    ELSE IF chain[i].kind = "absorb" THEN Black
    ELSE loop_color(Color_mul(acc, chain[i].color), chain[i].ray, d - 1, i + 1)

\* C9: the recursive ray_color returns what the explicit loop returns on the
\* same answers of the world and the materials: black when the chain ends by
\* absorption or by depth 0, and the product of the attenuations times
\* background(r) when it ends with ray r missing the world.
C9_LoopEquivalence ==
    rpc = "done" => result = loop_color(White, call.ray, call.depth, 1)

C9_Witness ==
    /\ rpc = "done" /\ Len(chain) >= 3
    /\ chain[Len(chain)].kind = "miss"
    /\ chain[1].color # chain[2].color
    /\ result # Black

\* C10: the ray Camera::ray returns aims at lb + u*horizontal_full +
\* v*vertical_full, whatever the lens sample and the aperture, and the call
\* leaves the camera as Camera::new built it.
C10_AimPoint ==
    /\ ray.cast =>
        add(ray.origin, ray.direction)
            = add(add(camera.lb, mul_f64(camera.horizontal_full, args[1])),
                  mul_f64(camera.vertical_full, args[2]))
    /\ camera.built =>
        camera = Camera_new(builder.look_from, builder.look_at, builder.vup,
                            builder.fov, builder.aspect_ratio,
                            builder.aperture, builder.focus_distance,
                            builder.shutter_speed)

C10_Witness ==
    /\ ray.cast /\ camera.aperture # Zero
    /\ lens = new(Half, Rat(-1, 2), Zero)
    /\ ray.origin # camera.origin
    /\ args = <<One, Rat(1, 3)>>

=============================================================================
